---- MODULE Spec2Model ----
(***************************************************************************)
(* Point-mode workflow of ApplyTransformToPointSet.ipynb, executed cell by *)
(* cell by the run script (jupyter nbconvert --execute).                   *)
(*                                                                         *)
(* Coordinates are fixed-point integers in units of 1/Scale (1e-5), the    *)
(* resolution of the values the notebook prints; text is a sequence of     *)
(* one-character strings; a text file is a sequence of lines.              *)
(*                                                                         *)
(* Spec is a run of the point notebook.  SpecStack is the parameter chain  *)
(* under AddParameterMap alone; SpecCache is the zarr level cache of       *)
(* LocalFetchFromS3.ipynb under array requests; SpecOrient is the geometry *)
(* of itk_image under the orientation filter, for any pair of codes.       *)
(* SpecImage is a run of cells 9-13 of LocalFetchFromS3.ipynb.             *)
(***************************************************************************)
EXTENDS Integers, Sequences, FiniteSets, TLC

\* ------------------------------------------------------------------ bounds
MaxPoints == 2

\* --------------------------------------------------------- program constants
N_ELASTIX_STAGES == 3
Scale == 100000
FracLen == 5

\* nbconvert --ExecutePreprocessor.allow_errors=True: a cell that raises is
\* recorded in the notebook and execution goes on with the next cell.
allow_errors == TRUE

\* nbconvert --ExecutePreprocessor.timeout=-1: no limit on the time a cell
\* may take.
timeout == -1

\* ------------------------------------------------------------------ helpers
Abs(n) == IF n < 0 THEN -n ELSE n
Min(a, b) == IF a < b THEN a ELSE b

RECURSIVE Pow10(_)
Pow10(k) == IF k = 0 THEN 1 ELSE 10 * Pow10(k - 1)

\* Python s[a:b] on a sequence (0-based, end exclusive, clipped to the length).
PySlice(s, a, b) == SubSeq(s, a + 1, Min(b, Len(s)))

\* ------------------------------------------------------- number formatting
Digits == <<"0", "1", "2", "3", "4", "5", "6", "7", "8", "9">>
DigitChar(d) == Digits[d + 1]
IsDigit(c) == \E d \in 0..9 : Digits[d + 1] = c
DigitVal(c) == CHOOSE d \in 0..9 : Digits[d + 1] = c

\* f"{n}" for a non-negative int
RECURSIVE FormatNat(_)
FormatNat(n) ==
    IF n < 10 THEN <<DigitChar(n)>>
    ELSE FormatNat(n \div 10) \o <<DigitChar(n % 10)>>

\* the fraction digits of a float's repr: no trailing zeros, at least one digit
RECURSIVE StripZeros(_)
StripZeros(ds) ==
    IF Len(ds) > 1 /\ ds[Len(ds)] = "0"
    THEN StripZeros(SubSeq(ds, 1, Len(ds) - 1))
    ELSE ds

FormatFrac(f) ==
    StripZeros([i \in 1..FracLen |-> DigitChar((f \div Pow10(FracLen - i)) % 10)])

\* faulty variant: the sign of a negative coordinate is lost
FormatCoordUnsigned(v) ==
    FormatNat(Abs(v) \div Scale) \o <<".">> \o FormatFrac(Abs(v) % Scale)

\* f"{point[k]}" for a coordinate: sign, integer part, ".", fraction
FormatCoord(v) ==
    (IF v < 0 THEN <<"-">> ELSE <<>>)
        \o FormatNat(Abs(v) \div Scale) \o <<".">> \o FormatFrac(Abs(v) % Scale)

\* faulty variant: the coordinates are separated by commas
FormatPointLineComma(p) ==
    FormatCoord(p[1]) \o <<",">> \o FormatCoord(p[2]) \o <<",">> \o FormatCoord(p[3])

\* f"{point[0]} {point[1]} {point[2]}"
FormatPointLine(p) ==
    FormatCoord(p[1]) \o <<" ">> \o FormatCoord(p[2]) \o <<" ">> \o FormatCoord(p[3])

\* --------------------------------------------- engine point-file format
\* Cell 8: header "point", the point count, then one line per point, in
\* container order.
WritePointTable(points) ==
    << <<"p", "o", "i", "n", "t">>, FormatNat(Len(points)) >>
        \o [i \in 1..Len(points) |-> FormatPointLine(points[i])]

\* The inverse of the format (section 6 of the specification): line 1 the
\* literal header, line 2 the count N, then N lines of three coordinates
\* separated by single spaces.
RECURSIVE ParseNat(_)
ParseNat(cs) ==
    IF Len(cs) = 0 THEN 0
    ELSE 10 * ParseNat(SubSeq(cs, 1, Len(cs) - 1)) + DigitVal(cs[Len(cs)])

IsNatText(cs) == Len(cs) > 0 /\ \A i \in 1..Len(cs) : IsDigit(cs[i])

\* position of the first occurrence of c in cs, or 0
FindChar(cs, c) ==
    IF \E i \in 1..Len(cs) : cs[i] = c
    THEN CHOOSE i \in 1..Len(cs) : cs[i] = c /\ \A j \in 1..(i - 1) : cs[j] # c
    ELSE 0

RECURSIVE SplitOn(_, _)
SplitOn(cs, c) ==
    LET k == FindChar(cs, c)
    IN  IF k = 0 THEN <<cs>>
        ELSE <<SubSeq(cs, 1, k - 1)>> \o SplitOn(SubSeq(cs, k + 1, Len(cs)), c)

Unsigned(cs) == IF Len(cs) > 0 /\ cs[1] = "-" THEN Tail(cs) ELSE cs

IsCoordText(cs) ==
    LET parts == SplitOn(Unsigned(cs), ".")
    IN  /\ Len(parts) = 2
        /\ IsNatText(parts[1])
        /\ IsNatText(parts[2])
        /\ Len(parts[2]) <= FracLen

ParseCoord(cs) ==
    LET parts == SplitOn(Unsigned(cs), ".")
        mag   == ParseNat(parts[1]) * Scale
                    + ParseNat(parts[2]) * Pow10(FracLen - Len(parts[2]))
    IN  IF Len(cs) > 0 /\ cs[1] = "-" THEN -mag ELSE mag

IsPointLine(cs) ==
    LET f == SplitOn(cs, " ")
    IN  Len(f) = 3 /\ \A k \in 1..3 : IsCoordText(f[k])

ParsePointLine(cs) ==
    LET f == SplitOn(cs, " ")
    IN  <<ParseCoord(f[1]), ParseCoord(f[2]), ParseCoord(f[3])>>

IsPointTable(lines) ==
    /\ Len(lines) >= 2
    /\ lines[1] = <<"p", "o", "i", "n", "t">>
    /\ IsNatText(lines[2])
    /\ Len(lines) = 2 + ParseNat(lines[2])
    /\ \A i \in 3..Len(lines) : IsPointLine(lines[i])

ReadPointTable(lines) ==
    [i \in 1..(Len(lines) - 2) |-> ParsePointLine(lines[i + 2])]

\* ------------------------------------------------------ stage 0 (linear)
Identity == << <<1, 0, 0>>, <<0, 1, 0>>, <<0, 0, 1>> >>
RotZ90   == << <<0, -1, 0>>, <<1, 0, 0>>, <<0, 0, 1>> >>
Origin   == <<0, 0, 0>>

MatVec(M, v) ==
    << M[1][1] * v[1] + M[1][2] * v[2] + M[1][3] * v[3],
       M[2][1] * v[1] + M[2][2] * v[2] + M[2][3] * v[3],
       M[3][1] * v[1] + M[3][2] * v[2] + M[3][3] * v[3] >>

VecAdd(a, b) == <<a[1] + b[1], a[2] + b[2], a[3] + b[3]>>
VecSub(a, b) == <<a[1] - b[1], a[2] - b[2], a[3] - b[3]>>

\* faulty variant: the rotation center is not taken out of the offset
ComputeOffsetNoCenter(Matrix, Translation, Center) == VecAdd(Translation, Center)

\* itk.transformread: the transform as printed by cell 6, its Offset being
\* Translation + Center - Matrix * Center.
ComputeOffset(Matrix, Translation, Center) ==
    VecSub(VecAdd(Translation, Center), MatVec(Matrix, Center))

ReadTransform(file) ==
    [Matrix      |-> file.Matrix,
     Offset      |-> ComputeOffset(file.Matrix, file.Translation, file.Center),
     Center      |-> file.Center,
     Translation |-> file.Translation]

\* faulty variant: the point is passed on as it is
TransformPointRaw(T, point) == point

\* init_transform.TransformPoint(point): Matrix * point + Offset
TransformPoint(T, point) == VecAdd(MatVec(T.Matrix, point), T.Offset)

\* faulty variant: the index is ignored and slot 0 is overwritten
InsertElementFirstSlot(container, id, value) == <<value>>

\* itk VectorContainer.InsertElement(id, value), id 0-based: the container
\* grows to hold index id, then the element is set.
InsertElement(container, id, value) ==
    [i \in 1..(IF id + 1 > Len(container) THEN id + 1 ELSE Len(container)) |->
        IF i = id + 1 THEN value
        ELSE IF i <= Len(container) THEN container[i]
        ELSE Origin]

GetPoint(container, id) == container[id + 1]
GetNumberOfPoints(container) == Len(container)

\* for point_id, point in enumerate(controlPoints): InsertElement(point_id, position)
RECURSIVE InsertAll(_, _, _)
InsertAll(container, positions, point_id) ==
    IF point_id = Len(positions) THEN container
    ELSE InsertAll(InsertElement(container, point_id, positions[point_id + 1]),
                   positions, point_id + 1)

\* ------------------------------------------------- parameter chain
\* ELASTIX_TRANSFORM_FILENAMES: elastix-transform{index}.txt, index 0..2
ELASTIX_TRANSFORM_FILENAMES == [k \in 1..N_ELASTIX_STAGES |-> k - 1]

\* The parameter map stored in a stage file (rigid, affine, bspline in sequence).
StageFileMap(index) ==
    [Stage     |-> index,
     Transform |-> IF index = 0 THEN "EulerTransform"
                   ELSE IF index = 1 THEN "AffineTransform"
                   ELSE "BSplineTransform"]

\* faulty variant: the file's map is appended to the maps the object holds
ReadParameterFileAppend(maps, index) == Append(maps, StageFileMap(index))

\* param.ReadParameterFile(name): the object's maps become the one map of the file.
ReadParameterFile(maps, index) == <<StageFileMap(index)>>

\* param.GetParameterMap(k), k 0-based
GetParameterMap(maps, k) == maps[k + 1]

\* toplevel_param.AddParameterMap(map): appended at the end
AddParameterMap(maps, map) == Append(maps, map)

\* ------------------------------------------------- engine result table
\* A token of a result line: a symbol, a number, or a run of whitespace.
Sym(s) == [lab |-> s, num |-> 0]
Num(n) == [lab |-> "#", num |-> n]
Ws     == [lab |-> " ", num |-> 0]
Tab    == [lab |-> "\t", num |-> 0]
IsSpace(t) == t.lab \in {" ", "\t"}

Group(label, v) ==
    <<Sym(label), Sym("="), Sym("["), Num(v[1]), Num(v[2]), Num(v[3]), Sym("]")>>

\* The engine's layouts of a result line.  "standard" is the layout of the
\* transformix release the notebook was written for; the others are
\* well-formed lines of a release that drops or reorders a group.
Layouts == {"standard", "noindex", "nooutput"}
Spacings == {"single", "tabbed"}

\* the non-linear stages, opaque to the workflow: a displacement per stage
StageShift(map) == <<1000 * (map.Stage + 1), 0 - 10 * (map.Stage + 1), map.Stage>>

RECURSIVE ApplyChain(_, _)
ApplyChain(chain, p) ==
    IF Len(chain) = 0 THEN p
    ELSE ApplyChain(Tail(chain), VecAdd(p, StageShift(Head(chain))))

VoxelIndex(p) == <<p[1] \div 2500, p[2] \div 2500, p[3] \div 2500>>

LineTokens(layout, i, p, q) ==
    <<Sym("Point"), Num(i), Sym(";")>>
        \o (IF layout = "noindex" THEN <<>>
            ELSE Group("InputIndex", VoxelIndex(p)) \o <<Sym(";")>>)
        \o Group("InputPoint", p) \o <<Sym(";")>>
        \o Group("OutputIndexFixed", VoxelIndex(q)) \o <<Sym(";")>>
        \o (IF layout = "nooutput" THEN <<>>
            ELSE Group("OutputPoint", q) \o <<Sym(";")>>)
        \o Group("Deformation", VecSub(q, p))

RECURSIVE Spaced(_, _)
Spaced(tokens, spacing) ==
    IF Len(tokens) = 0 THEN <<>>
    ELSE (IF spacing = "single" THEN <<>> ELSE <<Tab>>)
            \o <<Head(tokens)>>
            \o (IF Len(tokens) = 1 /\ spacing = "single" THEN <<>> ELSE <<Ws>>)
            \o Spaced(Tail(tokens), spacing)

\* outputpoints.txt as the engine writes it for the points of the point file
EngineOutput(points, chain, layout, spacing) ==
    [i \in 1..Len(points) |->
        Spaced(LineTokens(layout, i - 1, points[i], ApplyChain(chain, points[i])),
               spacing)]

\* itk.transformix_pointset returns the table split on whitespace, one row of
\* tokens per line.
IsToken(t) == ~IsSpace(t)
LoadTxt(lines) == [i \in 1..Len(lines) |-> SelectSeq(lines[i], IsToken)]

\* Cell 12: the two slices of a row that are printed.
PrintRow(output_point) ==
    [input  |-> PySlice(output_point, 11, 18),
     output |-> PySlice(output_point, 27, 35)]

\* ------------------------------------------------------------- inputs
ExamplePoint       == <<846357, 956160, 561258>>
ExampleTranslation == <<-1232590, -261410, -816350>>
ExampleCenter      == <<663840, 920160, 417600>>
ExampleImage       == <<-386233, 694750, -255092>>

PointPool    == {ExamplePoint, <<-100000, 250000, 1050>>, Origin}
Matrices     == {Identity, RotZ90}
Translations == {ExampleTranslation, <<300, 0, -70000>>}
Centers      == {ExampleCenter, <<-50000, 120000, 7>>}

\* the control-point positions of the markup file, in document order
Markups == UNION {[1..n -> PointPool] : n \in 0..MaxPoints}

\* init-transform.hdf5: present with some rigid transform, or missing
TransformFiles ==
    {[exists |-> TRUE, Matrix |-> m, Translation |-> t, Center |-> c] :
        m \in Matrices, t \in Translations, c \in Centers}
    \cup {[exists |-> FALSE, Matrix |-> Identity, Translation |-> Origin,
           Center |-> Origin]}

\* which stage files are on disk: all of them, or all but one
StageFileSets ==
    {f \in [0..(N_ELASTIX_STAGES - 1) -> BOOLEAN] :
        Cardinality({k \in 0..(N_ELASTIX_STAGES - 1) : ~f[k]}) <= 1}

NoTransform ==
    [Matrix |-> Identity, Offset |-> Origin, Center |-> Origin, Translation |-> Origin]

\* ------------------------------------------ LocalFetchFromS3: level cache
\* zarr.LRUStoreCache(store, max_size=2**28) in front of the S3 store; the
\* group holds the arrays 0..4, one per pyramid level.
max_size == 268435456
NUM_ARRAYS == 5

\* A key of the store: the group's metadata, an array's metadata or one chunk
GroupKey == <<"group", 0, 0>>
MetaKey(level) == <<"meta", level, 0>>
ChunkKey(level, c) == <<"chunk", level, c>>

\* What the store holds: bytes of a metadata value, bytes of a chunk and the
\* number of chunks of every array (array i at index i + 1)
StoreLayouts ==
    {[meta_bytes |-> 512, chunk_bytes |-> 16777216, chunks |-> <<2, 1, 1, 1, 1>>],
     [meta_bytes |-> 512, chunk_bytes |-> 67108864, chunks |-> <<4, 2, 2, 1, 1>>],
     [meta_bytes |-> 512, chunk_bytes |-> 134217728, chunks |-> <<3, 2, 1, 1, 1>>],
     [meta_bytes |-> 512, chunk_bytes |-> 268435457, chunks |-> <<1, 1, 1, 1, 1>>]}

Range(s) == {s[k] : k \in 1..Len(s)}

KeySize(layout, key) ==
    IF key[1] = "chunk" THEN layout.chunk_bytes ELSE layout.meta_bytes

\* the keys np.asarray(root[level]) reads, in order
ArrayKeys(layout, level) ==
    <<MetaKey(level)>> \o [c \in 1..layout.chunks[level + 1] |-> ChunkKey(level, c)]

\* _current_size of the values cache (least recently used value first)
RECURSIVE CurrentSize(_, _)
CurrentSize(layout, values) ==
    IF values = <<>> THEN 0
    ELSE KeySize(layout, Head(values)) + CurrentSize(layout, Tail(values))

\* faulty variant: nothing is evicted to make room
AccommodateNothing(layout, values, value_size) == values

\* _accommodate_value: pop the least recently used value while there is no room
RECURSIVE AccommodateValue(_, _, _)
AccommodateValue(layout, values, value_size) ==
    IF values # <<>> /\ CurrentSize(layout, values) + value_size > max_size
    THEN AccommodateValue(layout, Tail(values), value_size)
    ELSE values

\* _cache_value: a value larger than max_size is not cached at all
CacheValue(layout, values, key) ==
    IF KeySize(layout, key) <= max_size
    THEN Append(AccommodateValue(layout, values, KeySize(layout, key)), key)
    ELSE values

MoveToEnd(values, key) == Append(SelectSeq(values, LAMBDA k : k # key), key)

\* LRUStoreCache.__getitem__: a hit moves the key to the end, a miss reads
\* the store and caches the value
GetItem(layout, st, key) ==
    IF key \in Range(st.values)
    THEN [st EXCEPT !.values = MoveToEnd(st.values, key)]
    ELSE [st EXCEPT !.values = CacheValue(layout, st.values, key),
                    !.reads = Append(st.reads, key)]

RECURSIVE GetItems(_, _, _)
GetItems(layout, st, keys) ==
    IF keys = <<>> THEN st
    ELSE GetItems(layout, GetItem(layout, st, Head(keys)), Tail(keys))

\* faulty variant: a request for an array the group lacks drops the least
\* recently used value
ReadArrayEvicting(layout, st, level) ==
    IF level \in 0..(NUM_ARRAYS - 1)
    THEN GetItems(layout, st, ArrayKeys(layout, level))
    ELSE [st EXCEPT !.raised = TRUE, !.values = Tail(st.values)]

\* np.asarray(root[level]): KeyError for an array the group lacks, else the
\* array's metadata and chunks are read through the cache
ReadArray(layout, st, level) ==
    IF level \in 0..(NUM_ARRAYS - 1)
    THEN GetItems(layout, st, ArrayKeys(layout, level))
    ELSE [st EXCEPT !.raised = TRUE]

\* ------------------------------------------ LocalFetchFromS3: metadata
\* .zattrs of the channel: the axes and, per dataset path 0..4, the scale,
\* in tenths of a micrometer
ZattrsAxes == <<"t", "c", "z", "y", "x">>
ZattrsScales ==
    << <<10, 10, 20, 18, 18>>,
       <<10, 10, 40, 36, 36>>,
       <<10, 10, 80, 72, 72>>,
       <<10, 10, 160, 144, 144>>,
       <<10, 10, 320, 288, 288>> >>
\* the path of each dataset, in the order of the datasets
ZattrsPaths == <<0, 1, 2, 3, 4>>

AxisIndex(axis_name) == CHOOSE k \in 1..Len(ZattrsAxes) : ZattrsAxes[k] = axis_name

\* faulty variant: the scale is read at the position of the axis among x, y, z
LevelSpacingByPosition(level, axis_name) ==
    ZattrsScales[level + 1][CHOOSE k \in 1..3 : <<"x", "y", "z">>[k] = axis_name]

\* the scale of dataset path level along the named axis
LevelSpacing(level, axis_name) == ZattrsScales[level + 1][AxisIndex(axis_name)]

\* --------------------------------- LocalFetchFromS3: image and orientation
\* an orientation code names, per image axis, the anatomical direction
AxisOf(letter) ==
    CASE letter \in {"R", "L"} -> 1
      [] letter \in {"A", "P"} -> 2
      [] letter \in {"I", "S"} -> 3

Codes ==
    {c \in [1..3 -> {"R", "L", "A", "P", "I", "S"}] :
        {AxisOf(c[k]) : k \in 1..3} = 1..3}

RAI == <<"R", "A", "I">>
LPS == <<"L", "P", "S">>
INPUT_COORDINATE_ORIENTATION == RAI

itk_spatial_axes == <<"x", "y", "z">>
ExampleSpacings == [axis_name \in {"x", "y", "z"} |->
                       IF axis_name = "z" THEN 3200 ELSE 2880]
ExampleShape == <<262, 640, 462>>

\* itk.image_view_from_array: numpy (z, y, x) shape to ITK (x, y, z) size,
\* unit spacing, zero origin, identity direction
ImageViewFromArray(shape) ==
    [size |-> <<shape[3], shape[2], shape[1]>>, spacing |-> <<1, 1, 1>>,
     origin |-> Origin, direction |-> Identity]

\* faulty variant: the spacings are taken in the stored z, y, x order
SetSpacingByPosition(image, spacings) ==
    [image EXCEPT !.spacing = <<spacings["z"], spacings["y"], spacings["x"]>>]

SetSpacing(image, spacings) ==
    [image EXCEPT !.spacing = [k \in 1..3 |-> spacings[itk_spatial_axes[k]]]]


\* output axis j is the given axis that names the same anatomical axis
PermuteOrder(given, desired) ==
    [j \in 1..3 |-> CHOOSE i \in 1..3 : AxisOf(given[i]) = AxisOf(desired[j])]

\* faulty variant: an axis is flipped whenever the desired code names the
\* left, posterior or superior direction for it
FlipAxesByDesired(given, desired) ==
    [j \in 1..3 |-> desired[j] \in {"L", "P", "S"}]

\* output axis j is flipped when the two codes name opposite directions
FlipAxes(given, desired) ==
    [j \in 1..3 |-> given[PermuteOrder(given, desired)[j]] # desired[j]]

\* faulty variant: the spacing stays in the given axis order
PermuteSpacingKept(spacing, order) == spacing

PermuteSpacing(spacing, order) == [j \in 1..3 |-> spacing[order[j]]]

\* faulty variant: the index-to-point matrix is taken for the direction
PermuteAxesScaled(image, order) ==
    [size |-> [j \in 1..3 |-> image.size[order[j]]],
     spacing |-> PermuteSpacing(image.spacing, order),
     origin |-> image.origin,
     direction |-> [r \in 1..3 |-> [j \in 1..3 |->
                      image.direction[r][order[j]] * image.spacing[order[j]]]]]

\* itk.PermuteAxesImageFilter: axis j of the output is axis order[j] of the input
PermuteAxes(image, order) ==
    [size |-> [j \in 1..3 |-> image.size[order[j]]],
     spacing |-> PermuteSpacing(image.spacing, order),
     origin |-> image.origin,
     direction |-> [r \in 1..3 |-> [j \in 1..3 |-> image.direction[r][order[j]]]]]

\* faulty variant: the direction is negated and the origin stays
FlipImageKeepOrigin(image, flip) ==
    [image EXCEPT
        !.direction = [r \in 1..3 |-> [j \in 1..3 |->
            IF flip[j] THEN -image.direction[r][j] ELSE image.direction[r][j]]]]

\* itk.FlipImageFilter, FlipAboutOriginOff: the origin moves to the last
\* voxel of every flipped axis and the axis' direction column is negated
FlipImage(image, flip) ==
    LET Extent(r, j) ==
            IF flip[j]
            THEN image.direction[r][j] * image.spacing[j] * (image.size[j] - 1)
            ELSE 0
    IN  [image EXCEPT
            !.origin = [r \in 1..3 |->
                image.origin[r] + Extent(r, 1) + Extent(r, 2) + Extent(r, 3)],
            !.direction = [r \in 1..3 |-> [j \in 1..3 |->
                IF flip[j] THEN -image.direction[r][j] ELSE image.direction[r][j]]]]

\* itk.OrientImageFilter, UpdateOutputInformation: geometry of the output
OrientImageFilter(image, given, desired) ==
    FlipImage(PermuteAxes(image, PermuteOrder(given, desired)),
              FlipAxes(given, desired))

\* -------------------------------------------------------------- state
VARIABLES
    markup,            \* points_markup["markups"][0]["controlPoints"] positions
    transform_file,    \* ITK_TRANSFORM_FILENAME on disk
    stage_exists,      \* which ELASTIX_TRANSFORM_FILENAMES exist on disk
    pc,                \* the cell (and loop position) executed next
    idx,               \* loop variable of the running cell
    defined,           \* names bound in the kernel's namespace
    errors,            \* cells that raised
    status,            \* of the nbconvert run
    input_points,
    init_transform,
    init_points,
    results_dir,       \* the files under RESULTS_PATH
    param,
    toplevel_param,
    engine_calls,      \* the calls of itk.transformix_pointset made so far
    result_point_set,
    printed,           \* stdout of cell 12
    store_layout,      \* what the S3 store holds
    requests,          \* the array requests made, with their outcome
    cache,             \* keys of the values cached, least recently used first
    store_reads,       \* keys read from the S3 store, in order
    voxel_shape,       \* shape of the squeezed array
    axis_spacings,     \* spacing by axis name
    orientation,       \* given and desired orientation code
    itk_image,         \* geometry of itk_image
    written            \* the images written to SMARTSPIM_OUTPUT_FILENAME

vars == <<markup, transform_file, stage_exists, pc, idx, defined, errors, status,
          input_points, init_transform, init_points, results_dir, param,
          toplevel_param, engine_calls, result_point_set, printed,
          store_layout, requests, cache, store_reads,
          voxel_shape, axis_spacings, orientation, itk_image, written>>

image_vars == <<store_layout, requests, cache, store_reads,
                voxel_shape, axis_spacings, orientation, itk_image, written>>

inputs == <<markup, transform_file, stage_exists>>

Cells == <<"cell5", "cell6", "cell7", "cell8", "cell9", "cell10", "cell11", "cell12">>

CellOf(p) ==
    IF p = "cell7_loop" THEN "cell7"
    ELSE IF p = "cell9_loop" THEN "cell9"
    ELSE IF p = "cell11_wait" THEN "cell11" ELSE p

CellNumber(c) == CHOOSE k \in 1..Len(Cells) : Cells[k] = c

\* the cell nbconvert executes after cell c
NextCell(c) ==
    IF CellNumber(c) = Len(Cells) THEN "end" ELSE Cells[CellNumber(c) + 1]

\* the fetch notebook is not running
ImageIdle ==
    /\ store_layout \in {l \in StoreLayouts : l.chunk_bytes > max_size}
    /\ requests = <<>>
    /\ cache = <<>>
    /\ store_reads = <<>>
    /\ voxel_shape = ExampleShape
    /\ axis_spacings = ExampleSpacings
    /\ orientation = [given |-> INPUT_COORDINATE_ORIENTATION, desired |-> LPS]
    /\ itk_image = ImageViewFromArray(ExampleShape)
    /\ written = <<>>

Init ==
    /\ markup \in Markups
    /\ transform_file \in TransformFiles
    /\ stage_exists \in StageFileSets
    /\ pc = "cell5"
    /\ idx = 0
    /\ defined = {}
    /\ errors = {}
    /\ status = "running"
    /\ input_points = <<>>
    /\ init_transform = NoTransform
    /\ init_points = <<>>
    /\ results_dir = [has_points |-> FALSE, points |-> <<>>,
                      has_output |-> FALSE, output |-> <<>>]
    /\ param = <<>>
    /\ toplevel_param = <<>>
    /\ engine_calls = <<>>
    /\ result_point_set = <<>>
    /\ printed = <<>>
    /\ ImageIdle

\* faulty variant: the cell that writes the point file is passed over
AdvanceSkipWrite(cell) ==
    /\ pc' = IF cell = "cell7" THEN "cell9" ELSE NextCell(cell)
    /\ UNCHANGED <<errors, status>>

\* The cell ran to its end: nbconvert executes the next one.
Advance(cell) ==
    /\ pc' = NextCell(cell)
    /\ UNCHANGED <<errors, status>>

\* faulty variant: a cell that raised is executed again
RaiseRetry(cell) ==
    /\ errors' = errors \cup {cell}
    /\ pc' = cell
    /\ UNCHANGED status

\* The cell raised.  With allow_errors the error is stored in the notebook
\* and the next cell is executed; without it the run stops with an error.
Raise(cell) ==
    /\ errors' = errors \cup {cell}
    /\ IF allow_errors
       THEN pc' = NextCell(cell) /\ UNCHANGED status
       ELSE pc' = "exit" /\ status' = "failed"

\* Cell 5: input_points from the markup's control points
LoadPoints ==
    /\ pc = "cell5"
    /\ input_points' = InsertAll(<<>>, markup, 0)
    /\ defined' = defined \cup {"input_points"}
    /\ Advance("cell5")
    /\ UNCHANGED <<inputs, image_vars, idx, init_transform, init_points, results_dir, param,
                   toplevel_param, engine_calls, result_point_set, printed>>

\* Cell 6: init_transform = itk.transformread(ITK_TRANSFORM_FILENAME)[0]
ReadInitTransform ==
    /\ pc = "cell6"
    /\ IF transform_file.exists
       THEN /\ init_transform' = ReadTransform(transform_file)
            /\ defined' = defined \cup {"init_transform"}
            /\ Advance("cell6")
       ELSE /\ Raise("cell6")
            /\ UNCHANGED <<init_transform, defined>>
    /\ UNCHANGED <<inputs, image_vars, idx, input_points, init_points, results_dir, param,
                   toplevel_param, engine_calls, result_point_set, printed>>

\* Cell 7: init_points = New(), then the loop over range(GetNumberOfPoints())
Stage0Begin ==
    /\ pc = "cell7"
    /\ init_points' = <<>>
    /\ defined' = defined \cup {"init_points"}
    /\ idx' = 0
    /\ pc' = "cell7_loop"
    /\ UNCHANGED <<inputs, image_vars, errors, status, input_points, init_transform, results_dir,
                   param, toplevel_param, engine_calls, result_point_set, printed>>

\* faulty variant: the image of point idx is stored into input_points as well
Stage0StepInPlace ==
    /\ pc = "cell7_loop"
    /\ idx < GetNumberOfPoints(input_points)
    /\ IF "init_transform" \in defined
       THEN /\ init_points' =
                InsertElement(init_points, idx,
                              TransformPoint(init_transform, GetPoint(input_points, idx)))
            /\ input_points' =
                InsertElement(input_points, idx,
                              TransformPoint(init_transform, GetPoint(input_points, idx)))
            /\ idx' = idx + 1
            /\ UNCHANGED <<pc, errors, status>>
       ELSE /\ Raise("cell7")
            /\ UNCHANGED <<init_points, input_points, idx>>
    /\ UNCHANGED <<inputs, image_vars, defined, init_transform, results_dir, param,
                   toplevel_param, engine_calls, result_point_set, printed>>

Stage0Step ==
    /\ pc = "cell7_loop"
    /\ idx < GetNumberOfPoints(input_points)
    /\ IF "init_transform" \in defined
       THEN /\ init_points' =
                InsertElement(init_points, idx,
                              TransformPoint(init_transform, GetPoint(input_points, idx)))
            /\ idx' = idx + 1
            /\ UNCHANGED <<pc, errors, status>>
       ELSE /\ Raise("cell7")
            /\ UNCHANGED <<init_points, idx>>
    /\ UNCHANGED <<inputs, image_vars, defined, input_points, init_transform, results_dir, param,
                   toplevel_param, engine_calls, result_point_set, printed>>

Stage0End ==
    /\ pc = "cell7_loop"
    /\ idx = GetNumberOfPoints(input_points)
    /\ Advance("cell7")
    /\ UNCHANGED <<inputs, image_vars, idx, defined, input_points, init_transform, init_points,
                   results_dir, param, toplevel_param, engine_calls, result_point_set,
                   printed>>

\* Cell 8: the point table is written to TRANSFORMIX_POINTSET_FILE, which is
\* under RESULTS_PATH.
WritePoints ==
    /\ pc = "cell8"
    /\ results_dir' = [results_dir EXCEPT !.has_points = TRUE,
                                          !.points = WritePointTable(init_points)]
    /\ Advance("cell8")
    /\ UNCHANGED <<inputs, image_vars, idx, defined, input_points, init_transform, init_points,
                   param, toplevel_param, engine_calls, result_point_set, printed>>

\* Cell 9: toplevel_param and param are created, then one iteration per
\* stage file name.
ChainBegin ==
    /\ pc = "cell9"
    /\ toplevel_param' = <<>>
    /\ param' = <<>>
    /\ defined' = defined \cup {"toplevel_param", "param"}
    /\ idx' = 0
    /\ pc' = "cell9_loop"
    /\ UNCHANGED <<inputs, image_vars, errors, status, input_points, init_transform, init_points,
                   results_dir, engine_calls, result_point_set, printed>>

ChainStep ==
    /\ pc = "cell9_loop"
    /\ idx < Len(ELASTIX_TRANSFORM_FILENAMES)
    /\ LET elastix_transform_filename == ELASTIX_TRANSFORM_FILENAMES[idx + 1]
       IN  IF stage_exists[elastix_transform_filename]
           THEN /\ param' = ReadParameterFile(param, elastix_transform_filename)
                /\ toplevel_param' =
                       AddParameterMap(toplevel_param, GetParameterMap(param', 0))
                /\ idx' = idx + 1
                /\ UNCHANGED <<pc, errors, status>>
           ELSE /\ Raise("cell9")
                /\ UNCHANGED <<param, toplevel_param, idx>>
    /\ UNCHANGED <<inputs, image_vars, defined, input_points, init_transform, init_points,
                   results_dir, engine_calls, result_point_set, printed>>

ChainEnd ==
    /\ pc = "cell9_loop"
    /\ idx = Len(ELASTIX_TRANSFORM_FILENAMES)
    /\ Advance("cell9")
    /\ UNCHANGED <<inputs, image_vars, idx, defined, input_points, init_transform, init_points,
                   results_dir, param, toplevel_param, engine_calls, result_point_set,
                   printed>>

\* Cell 10: average_template = itk.imread(TARGET_IMAGE_INPUT_FILEPATH)
ReadReference ==
    /\ pc = "cell10"
    /\ defined' = defined \cup {"average_template"}
    /\ Advance("cell10")
    /\ UNCHANGED <<inputs, image_vars, idx, input_points, init_transform, init_points, results_dir,
                   param, toplevel_param, engine_calls, result_point_set, printed>>

\* Cell 11: result_point_set = itk.transformix_pointset(average_template,
\* toplevel_param, fixed_point_set_file_name=TRANSFORMIX_POINTSET_FILE,
\* output_directory=RESULTS_PATH).  The engine reads the point file, writes
\* RESULTS_PATH/outputpoints.txt and the table is returned; or it raises.
EngineCall(ok) ==
    [point_file |-> results_dir.points, chain |-> toplevel_param, ok |-> ok]

EngineSucceeds(layout, spacing) ==
    /\ pc = "cell11"
    /\ results_dir.has_points
    /\ IsPointTable(results_dir.points)
    /\ LET out == EngineOutput(ReadPointTable(results_dir.points), toplevel_param,
                               layout, spacing)
       IN  /\ results_dir' = [results_dir EXCEPT !.has_output = TRUE, !.output = out]
           /\ result_point_set' = LoadTxt(out)
    /\ engine_calls' = Append(engine_calls, EngineCall(TRUE))
    /\ defined' = defined \cup {"result_point_set"}
    /\ Advance("cell11")
    /\ UNCHANGED <<inputs, image_vars, idx, input_points, init_transform, init_points, param,
                   toplevel_param, printed>>

EngineFails ==
    /\ pc = "cell11"
    /\ engine_calls' = Append(engine_calls, EngineCall(FALSE))
    /\ Raise("cell11")
    /\ UNCHANGED <<inputs, image_vars, idx, defined, input_points, init_transform, init_points,
                   results_dir, param, toplevel_param, result_point_set, printed>>

\* faulty variant: the cell is given up after some time and the run fails
NoReturnTimesOut(cell) ==
    /\ pc' = "exit"
    /\ status' = "failed"
    /\ UNCHANGED errors

\* The call made by the cell does not return.  Without a time limit the
\* cell stays in execution; with one, nbconvert gives the cell up.
NoReturn(cell) ==
    IF timeout < 0
    THEN pc' = "cell11_wait" /\ UNCHANGED <<errors, status>>
    ELSE /\ pc' = "exit"
         /\ status' = "failed"
         /\ UNCHANGED errors

\* Cell 11, the engine never returning: the call is made and the cell waits
EngineHangs ==
    /\ pc = "cell11"
    /\ engine_calls' = Append(engine_calls, EngineCall(FALSE))
    /\ NoReturn("cell11")
    /\ UNCHANGED <<inputs, image_vars, idx, defined, input_points, init_transform,
                   init_points, results_dir, param, toplevel_param, result_point_set,
                   printed>>

\* Cell 12: one printed line per row of result_point_set
PrintResults ==
    /\ pc = "cell12"
    /\ IF "result_point_set" \in defined
       THEN /\ printed' = [i \in 1..Len(result_point_set) |->
                              PrintRow(result_point_set[i])]
            /\ Advance("cell12")
       ELSE /\ Raise("cell12")
            /\ UNCHANGED printed
    /\ UNCHANGED <<inputs, image_vars, idx, defined, input_points, init_transform, init_points,
                   results_dir, param, toplevel_param, engine_calls, result_point_set>>

\* All cells were executed: nbconvert writes the notebook and exits with 0.
Exit ==
    /\ pc = "end"
    /\ pc' = "exit"
    /\ status' = "completed"
    /\ UNCHANGED <<inputs, image_vars, idx, defined, errors, input_points, init_transform,
                   init_points, results_dir, param, toplevel_param, engine_calls,
                   result_point_set, printed>>

Next ==
    \/ LoadPoints
    \/ ReadInitTransform
    \/ Stage0Begin
    \/ Stage0Step
    \/ Stage0End
    \/ WritePoints
    \/ ChainBegin
    \/ ChainStep
    \/ ChainEnd
    \/ ReadReference
    \/ \E layout \in Layouts, spacing \in Spacings : EngineSucceeds(layout, spacing)
    \/ EngineFails
    \/ EngineHangs
    \/ PrintResults
    \/ Exit

Spec == Init /\ [][Next]_vars

\* ----------------------------------------------------------- properties
\* cell c has been executed to its end or to its error
Executed(c) ==
    \/ pc \in {"end", "exit"}
    \/ pc \notin {"end", "exit"} /\ CellNumber(CellOf(pc)) > CellNumber(c)

\* the image of markup point i under the transform of the transform file
Stage0Image(i) ==
    VecAdd(MatVec(transform_file.Matrix, VecSub(markup[i], transform_file.Center)),
           VecAdd(transform_file.Center, transform_file.Translation))

\* C1: with the initial transform loaded, stage 0 followed by the write of the
\* point file yields exactly as many points as the markup holds, and point i
\* of the result is the image of markup point i: nothing is dropped,
\* duplicated or reordered.
C1_PointsPreserved ==
    /\ (Executed("cell7") /\ "cell7" \notin errors) =>
          /\ Len(init_points) = Len(markup)
          /\ \A i \in 1..Len(markup) : init_points[i] = Stage0Image(i)
    /\ (results_dir.has_points /\ "cell7" \notin errors) =>
          /\ Len(results_dir.points) = Len(markup) + 2
          /\ \A i \in 1..Len(markup) :
                results_dir.points[i + 2] = FormatPointLine(Stage0Image(i))

C1_Witness ==
    /\ results_dir.has_points
    /\ "init_transform" \in defined
    /\ Len(markup) = 2
    /\ markup[1] # markup[2]
    /\ transform_file.Matrix = RotZ90

\* C2: the written point file has the header "point" on line 1, the decimal
\* point count N on line 2 and exactly N further lines; line 2+i holds the
\* three coordinates of point i separated by single spaces (also for N = 0).
C2_PointTableLayout ==
    results_dir.has_points =>
        LET f == results_dir.points
            N == Len(init_points)
        IN  /\ Len(f) = N + 2
            /\ f[1] = <<"p", "o", "i", "n", "t">>
            /\ IsNatText(f[2]) /\ ParseNat(f[2]) = N
            /\ \A i \in 1..N :
                  LET fields == SplitOn(f[i + 2], " ")
                  IN  /\ Len(fields) = 3
                      /\ \A k \in 1..3 :
                            /\ IsCoordText(fields[k])
                            /\ ParseCoord(fields[k]) = init_points[i][k]

C2_Witness ==
    /\ results_dir.has_points
    /\ Len(init_points) = 2
    /\ \E k \in 1..3 : init_points[2][k] < 0

\* C3: after the loop over the stage files the chain has one entry per stage
\* file and entry i is the map read from stage file i, although one reader
\* object is reused and its map 0 is taken in every iteration.
C3_ChainOrder ==
    /\ pc = "cell9_loop" =>
          /\ Len(toplevel_param) = idx
          /\ \A i \in 1..idx :
                toplevel_param[i] = StageFileMap(ELASTIX_TRANSFORM_FILENAMES[i])
    /\ (Executed("cell9") /\ "cell9" \notin errors) =>
          /\ Len(toplevel_param) = Len(ELASTIX_TRANSFORM_FILENAMES)
          /\ \A i \in 1..Len(ELASTIX_TRANSFORM_FILENAMES) :
                toplevel_param[i] = StageFileMap(ELASTIX_TRANSFORM_FILENAMES[i])

C3_Witness ==
    /\ Executed("cell9")
    /\ "cell9" \notin errors
    /\ toplevel_param[1].Stage = 0
    /\ toplevel_param[3].Stage = 2

\* The labelled group of a row, located by its label: label = [ x y z ]
GroupAt(row, label, k) ==
    /\ k + 6 <= Len(row)
    /\ row[k] = Sym(label)
    /\ row[k + 1] = Sym("=")
    /\ row[k + 2] = Sym("[")
    /\ \A j \in 3..5 : row[k + j].lab = "#"
    /\ row[k + 6] = Sym("]")

HasGroup(row, label) == \E k \in 1..Len(row) : GroupAt(row, label, k)

GroupTriple(row, label) ==
    LET k == CHOOSE j \in 1..Len(row) : GroupAt(row, label, j)
    IN  <<row[k + 3].num, row[k + 4].num, row[k + 5].num>>

IsNumber(t) == t.lab = "#"
Numbers(tokens) ==
    LET ns == SelectSeq(tokens, IsNumber) IN [i \in 1..Len(ns) |-> ns[i].num]

\* C4: for a result line holding an InputPoint group and an OutputPoint
\* group, what is extracted from the line is exactly the coordinate triple of
\* each of the two groups, whatever precedes them in the line.
C4_ParseByLabel ==
    (Executed("cell12") /\ "result_point_set" \in defined) =>
        \A i \in 1..Len(result_point_set) :
            LET row == result_point_set[i]
            IN  (HasGroup(row, "InputPoint") /\ HasGroup(row, "OutputPoint")) =>
                    /\ i <= Len(printed)
                    /\ Numbers(printed[i].input) = GroupTriple(row, "InputPoint")
                    /\ Numbers(printed[i].output) = GroupTriple(row, "OutputPoint")

\* C5: stage 0 with an identity rotation and translation t maps every point p
\* to p + t, whatever the rotation center; the example transform maps the
\* example point to the example image within 1e-3.
C5_IdentityTranslates ==
    init_transform.Matrix = Identity =>
        \A i \in 1..Len(init_points) :
            /\ init_points[i] = VecAdd(input_points[i], init_transform.Translation)
            /\ (/\ init_transform.Translation = ExampleTranslation
                /\ init_transform.Center = ExampleCenter
                /\ input_points[i] = ExamplePoint) =>
                    \A k \in 1..3 :
                        Abs(init_points[i][k] - ExampleImage[k]) <= Scale \div 1000

C5_Witness ==
    /\ Len(init_points) >= 1
    /\ input_points[1] = ExamplePoint
    /\ init_transform.Matrix = Identity
    /\ init_transform.Translation = ExampleTranslation
    /\ init_transform.Center = ExampleCenter
    /\ init_points[1] = ExampleImage

\* C6: reading the written point file back (header, count, then N coordinate
\* lines) gives the point set that was written: same number of points, same
\* coordinates, same order.
C6_RoundTrip ==
    results_dir.has_points =>
        /\ IsPointTable(results_dir.points)
        /\ ReadPointTable(results_dir.points) = init_points

C6_Witness ==
    /\ results_dir.has_points
    /\ Len(init_points) = 2
    /\ init_points[1] # init_points[2]
    /\ \E i \in 1..2, k \in 1..3 : init_points[i][k] < 0 /\ init_points[i][k] % Scale # 0

\* C7: the engine is called at most once in a run, whatever the number of
\* points and the outcome; the call receives the whole point file and the
\* whole parameter chain (all stage maps in order when the chain was built
\* without error).
C7_SingleEngineCall ==
    /\ Len(engine_calls) <= 1
    /\ \A k \in 1..Len(engine_calls) :
          LET call == engine_calls[k]
          IN  /\ call.point_file = WritePointTable(init_points)
              /\ Len(call.point_file) = Len(input_points) + 2 \/ "cell7" \in errors
              /\ call.chain = toplevel_param
              /\ "cell9" \notin errors =>
                    /\ Len(call.chain) = N_ELASTIX_STAGES
                    /\ \A i \in 1..N_ELASTIX_STAGES : call.chain[i].Stage = i - 1

C7_Witness ==
    /\ pc = "exit"
    /\ Len(engine_calls) = 1
    /\ ~engine_calls[1].ok
    /\ Len(engine_calls[1].point_file) = 4
    /\ Len(engine_calls[1].chain) = N_ELASTIX_STAGES

\* C8: when the engine call fails the run aborts: no later step is executed
\* and the run ends failed, never completed.
C8_AbortOnEngineError ==
    "cell11" \in errors =>
        /\ pc = "exit"
        /\ status = "failed"
        /\ "cell12" \notin errors
        /\ printed = <<>>

\* C9: while a run is in progress or has failed, the results location holds
\* neither a point file nor an engine result table of that run.
C9_NoPartialResults ==
    status # "completed" => (~results_dir.has_points /\ ~results_dir.has_output)

\* C10: a result line that lacks the InputPoint group or the OutputPoint
\* group makes the parse fail; no pair of triples is produced from it.
C10_ParseErrorOnMissingGroup ==
    (/\ Executed("cell12")
     /\ "result_point_set" \in defined
     /\ \E i \in 1..Len(result_point_set) :
            \/ ~HasGroup(result_point_set[i], "InputPoint")
            \/ ~HasGroup(result_point_set[i], "OutputPoint"))
    => ("cell12" \in errors /\ printed = <<>>)

\* C11: a missing initial transform or stage file is detected before any
\* output or engine call: in a run whose configuration is incomplete the
\* point file is never written and the engine is never called.
C11_ConfigCheckedFirst ==
    (\/ ~transform_file.exists
     \/ \E k \in DOMAIN stage_exists : ~stage_exists[k])
    => (~results_dir.has_points /\ engine_calls = <<>>)

\* C18: stage 0 leaves its input alone: from the end of the load on,
\* input_points holds the markup's points, same number, same order, same
\* coordinates, also after stage 0 has stored every image into init_points.
C18_InputUnchanged ==
    Executed("cell5") =>
        /\ GetNumberOfPoints(input_points) = Len(markup)
        /\ \A i \in 1..Len(markup) : GetPoint(input_points, i - 1) = markup[i]

C18_Witness ==
    /\ Executed("cell7")
    /\ "cell7" \notin errors
    /\ Len(init_points) = 2
    /\ \A i \in 1..2 : init_points[i] # input_points[i]
    /\ input_points[1] # input_points[2]

\* the files a run has put under RESULTS_PATH
TRANSFORMIX_POINTSET_FILE == "transformix_input_points.txt"
OUTPUT_POINTS_FILE == "outputpoints.txt"
ResultsFiles ==
    (IF results_dir.has_points THEN {TRANSFORMIX_POINTSET_FILE} ELSE {})
    \cup (IF results_dir.has_output THEN {OUTPUT_POINTS_FILE} ELSE {})

\* C19: a run that completed without any error has left under RESULTS_PATH
\* the engine's result table and, besides the engine's input and result
\* tables, the final point set in the markup format.
C19_ResultsAndMarkup ==
    (status = "completed" /\ errors = {}) =>
        /\ OUTPUT_POINTS_FILE \in ResultsFiles
        /\ ResultsFiles \ {TRANSFORMIX_POINTSET_FILE, OUTPUT_POINTS_FILE} # {}

\* the positions of a run, in program order
Positions ==
    <<"cell5", "cell6", "cell7", "cell7_loop", "cell8", "cell9", "cell9_loop",
      "cell10", "cell11", "cell12", "end", "exit">>
PositionOf(p) == CHOOSE k \in 1..Len(Positions) : Positions[k] = p

InputFrame(map) == map.Stage + 1
OutputFrame(map) == map.Stage + 2

MaxChain == 4

\* toplevel_param and param as cell 9 creates them, nothing else running
InitStack ==
    /\ markup = <<>>
    /\ transform_file \in {f \in TransformFiles : ~f.exists}
    /\ stage_exists = [k \in 0..(N_ELASTIX_STAGES - 1) |-> TRUE]
    /\ pc = "append"
    /\ idx = 0
    /\ defined = {"toplevel_param", "param"}
    /\ errors = {}
    /\ status = "running"
    /\ input_points = <<>>
    /\ init_transform = NoTransform
    /\ init_points = <<>>
    /\ results_dir = [has_points |-> FALSE, points |-> <<>>,
                      has_output |-> FALSE, output |-> <<>>]
    /\ param = <<>>
    /\ toplevel_param = <<>>
    /\ engine_calls = <<>>
    /\ result_point_set = <<>>
    /\ printed = <<>>
    /\ ImageIdle

\* the body of the loop of cell 9, for any stage file
AppendStage(index) ==
    /\ pc = "append"
    /\ Len(toplevel_param) < MaxChain
    /\ param' = ReadParameterFile(param, index)
    /\ toplevel_param' = AddParameterMap(toplevel_param, GetParameterMap(param', 0))
    /\ UNCHANGED <<inputs, image_vars, pc, idx, defined, errors, status, input_points,
                   init_transform, init_points, results_dir, engine_calls,
                   result_point_set, printed>>

NextStack == \E index \in 0..(N_ELASTIX_STAGES - 1) : AppendStage(index)

SpecStack == InitStack /\ [][NextStack]_vars

MaxRequests == 3

\* the point notebook is not running
PointIdle ==
    /\ markup = <<>>
    /\ transform_file \in {f \in TransformFiles : ~f.exists}
    /\ stage_exists = [k \in 0..(N_ELASTIX_STAGES - 1) |-> TRUE]
    /\ idx = 0
    /\ defined = {}
    /\ errors = {}
    /\ status = "running"
    /\ input_points = <<>>
    /\ init_transform = NoTransform
    /\ init_points = <<>>
    /\ results_dir = [has_points |-> FALSE, points |-> <<>>,
                      has_output |-> FALSE, output |-> <<>>]
    /\ param = <<>>
    /\ toplevel_param = <<>>
    /\ engine_calls = <<>>
    /\ result_point_set = <<>>
    /\ printed = <<>>

point_vars == <<inputs, pc, idx, defined, errors, status, input_points,
                init_transform, init_points, results_dir, param, toplevel_param,
                engine_calls, result_point_set, printed>>

\* store, cache and root as cell 10 leaves them: zarr.group has read the
\* group's metadata through the cache
InitCache ==
    /\ PointIdle
    /\ pc = "root"
    /\ store_layout \in StoreLayouts
    /\ requests = <<>>
    /\ cache = <<GroupKey>>
    /\ store_reads = <<GroupKey>>
    /\ voxel_shape = ExampleShape
    /\ axis_spacings = ExampleSpacings
    /\ orientation = [given |-> INPUT_COORDINATE_ORIENTATION, desired |-> LPS]
    /\ itk_image = ImageViewFromArray(ExampleShape)
    /\ written = <<>>

\* np.asarray(root[level]), as in cell 11, for any level index
GetLevel(level) ==
    /\ pc = "root"
    /\ Len(requests) < MaxRequests
    /\ LET st == ReadArray(store_layout,
                           [values |-> cache, reads |-> store_reads, raised |-> FALSE],
                           level)
       IN  /\ cache' = st.values
           /\ store_reads' = st.reads
           /\ requests' = Append(requests, [level |-> level, raised |-> st.raised])
    /\ UNCHANGED <<point_vars, store_layout, voxel_shape, axis_spacings, orientation,
                   itk_image, written>>

NextCache == \E level \in -1..NUM_ARRAYS : GetLevel(level)

SpecCache == InitCache /\ [][NextCache]_vars

LastRequest == requests'[Len(requests')]

IsCacheable(key) == KeySize(store_layout, key) <= max_size
NoDuplicates(s) == \A i, j \in 1..Len(s) : s[i] = s[j] => i = j

\* C14 as stated: the cache only grows.  Whatever was read from the store
\* and cached is still cached, nothing is read from the store twice and no
\* key is cached twice.
C14_AppendOnly ==
    /\ \A k \in 1..Len(store_reads) :
          IsCacheable(store_reads[k]) => store_reads[k] \in Range(cache)
    /\ NoDuplicates(SelectSeq(store_reads, IsCacheable))
    /\ NoDuplicates(cache)

\* C14, amended: the cache is a least-recently-used cache bounded by
\* max_size bytes.  It never holds more than max_size bytes nor a key twice,
\* and everything in it was read from the store; a request for an array
\* whose keys are all cached reads nothing from the store and evicts nothing;
\* values leave the cache only when a newly read value needs the room, the
\* least recently used first.
C14_LRUBounded ==
    [][requests' # requests =>
          /\ CurrentSize(store_layout, cache') <= max_size
          /\ NoDuplicates(cache')
          /\ Range(cache') \subseteq Range(store_reads')
          /\ (/\ ~LastRequest.raised
              /\ Range(ArrayKeys(store_layout, LastRequest.level)) \subseteq Range(cache))
             => (store_reads' = store_reads /\ Range(cache') = Range(cache))
          /\ Range(cache) \ Range(cache') # {} =>
                /\ store_reads' # store_reads
                /\ LET Requested == Range(ArrayKeys(store_layout, LastRequest.level))
                       others == SelectSeq(cache, LAMBDA key : key \notin Requested)
                   IN  \E n \in 0..Len(others) :
                          (Range(cache) \ Range(cache')) \ Requested
                              = {others[k] : k \in 1..n}]_vars

C14_Witness ==
    /\ Len(requests) = 3
    /\ requests[1].level = requests[3].level
    /\ ~requests[3].raised
    /\ \E k \in 1..Len(store_reads) :
          IsCacheable(store_reads[k]) /\ store_reads[k] \notin Range(cache)
    /\ CurrentSize(store_layout, cache) > max_size - store_layout.chunk_bytes

\* --------------------------------------------------- the orientation alone
Shapes == {ExampleShape, <<2, 3, 4>>}
SpacingTables ==
    {ExampleSpacings,
     [axis_name \in {"x", "y", "z"} |->
         IF axis_name = "x" THEN 180 ELSE IF axis_name = "y" THEN 360 ELSE 200]}

\* itk_image after cell 11 and the SetSpacing of cell 12, for any pair of
\* orientation codes
InitOrient ==
    /\ PointIdle
    /\ pc = "orient"
    /\ store_layout \in {l \in StoreLayouts : l.chunk_bytes > max_size}
    /\ requests = <<>>
    /\ cache = <<>>
    /\ store_reads = <<>>
    /\ voxel_shape \in Shapes
    /\ axis_spacings \in SpacingTables
    /\ orientation \in [given : Codes, desired : Codes]
    /\ itk_image = SetSpacing(ImageViewFromArray(voxel_shape), axis_spacings)
    /\ written = <<>>

\* Cell 12: orient_filter from given to desired, UpdateOutputInformation,
\* itk_image.CopyInformation(orient_filter.GetOutput())
Reorient ==
    /\ pc = "orient"
    /\ itk_image' = OrientImageFilter(itk_image, orientation.given, orientation.desired)
    /\ pc' = "oriented"
    /\ UNCHANGED <<inputs, idx, defined, errors, status, input_points, init_transform,
                   init_points, results_dir, param, toplevel_param, engine_calls,
                   result_point_set, printed, store_layout, requests, cache,
                   store_reads, voxel_shape, axis_spacings, orientation, written>>

\* the same filter once more, from desired back to given
ReorientBack ==
    /\ pc = "oriented"
    /\ itk_image' = OrientImageFilter(itk_image, orientation.desired, orientation.given)
    /\ pc' = "restored"
    /\ UNCHANGED <<inputs, idx, defined, errors, status, input_points, init_transform,
                   init_points, results_dir, param, toplevel_param, engine_calls,
                   result_point_set, printed, store_layout, requests, cache,
                   store_reads, voxel_shape, axis_spacings, orientation, written>>

NextOrient == Reorient \/ ReorientBack

SpecOrient == InitOrient /\ [][NextOrient]_vars

\* the given axis that names the anatomical axis of desired axis j
SourceAxis(j) ==
    CHOOSE i \in 1..3 :
        AxisOf(orientation.given[i]) = AxisOf(orientation.desired[j])

\* C15: for every pair of codes A and B, reorienting from A to B and then
\* from B to A gives back the direction matrix the image had before, entry
\* by entry (and with it size, spacing and origin).
C15_RoundTrip ==
    pc = "restored" =>
        /\ itk_image.direction = Identity
        /\ itk_image = SetSpacing(ImageViewFromArray(voxel_shape), axis_spacings)

C15_Witness ==
    /\ pc = "restored"
    /\ \E j \in 1..3 : SourceAxis(j) # j
    /\ \E j \in 1..3 : orientation.given[SourceAxis(j)] # orientation.desired[j]
    /\ \E j \in 1..3 : orientation.given[SourceAxis(j)] = orientation.desired[j]

\* C16: for every pair of codes the direction matrix after the
\* reorientation has exactly one non-zero entry in every row and in every
\* column, and that entry is 1 or -1.
C16_SignedPermutation ==
    pc \in {"oriented", "restored"} =>
        LET D == itk_image.direction
        IN  /\ \A r, c \in 1..3 : D[r][c] \in {-1, 0, 1}
            /\ \A r \in 1..3 : Cardinality({c \in 1..3 : D[r][c] # 0}) = 1
            /\ \A c \in 1..3 : Cardinality({r \in 1..3 : D[r][c] # 0}) = 1

C16_Witness ==
    /\ pc = "oriented"
    /\ itk_image.direction[1][1] = 0
    /\ \E r, c \in 1..3 : itk_image.direction[r][c] = -1
    /\ \E r, c \in 1..3 : itk_image.direction[r][c] = 1

\* C17: after the reorientation every axis carries the spacing that was set
\* for the given axis naming the same anatomical axis, unchanged and
\* positive, whether or not the axis was flipped.
C17_SpacingPermuted ==
    pc = "oriented" =>
        \A j \in 1..3 :
            /\ itk_image.spacing[j] = axis_spacings[itk_spatial_axes[SourceAxis(j)]]
            /\ itk_image.spacing[j] > 0

C17_Witness ==
    /\ pc = "oriented"
    /\ \E j \in 1..3 :
          /\ SourceAxis(j) # j
          /\ orientation.given[SourceAxis(j)] # orientation.desired[j]
          /\ itk_image.spacing[j] # axis_spacings[itk_spatial_axes[j]]

\* C21: the point file the engine is called with holds, at position i, the
\* stage-0 image of markup point i, the transform applied once: all of the
\* points when stage 0 ran without error, and never a point as it was loaded.
C21_EngineGetsStage0Images ==
    \A k \in 1..Len(engine_calls) :
        LET f == engine_calls[k].point_file
            n == Len(f) - 2
        IN  /\ n >= 0 /\ n <= Len(markup)
            /\ "cell7" \notin errors => n = Len(markup)
            /\ \A i \in 1..n :
                  /\ f[i + 2] = FormatPointLine(Stage0Image(i))
                  /\ Stage0Image(i) # markup[i] => f[i + 2] # FormatPointLine(markup[i])

C21_Witness ==
    /\ Len(engine_calls) = 1
    /\ engine_calls[1].ok
    /\ Len(engine_calls[1].point_file) = 4
    /\ transform_file.Matrix = RotZ90
    /\ markup[1] # markup[2]
    /\ \A i \in 1..2 : Stage0Image(i) # markup[i]

\* C23: an engine call that neither returned a result nor raised leaves the
\* run waiting in cell 11 and running, in every later state: nothing ends
\* the wait, and the run is never completed or failed.
C23_NoTimeout ==
    (/\ engine_calls # <<>>
     /\ "cell11" \notin errors
     /\ "result_point_set" \notin defined)
    => (pc = "cell11_wait" /\ status = "running" /\ Len(engine_calls) = 1)

C23_Witness ==
    /\ pc = "cell11_wait"
    /\ Len(engine_calls) = 1
    /\ Len(engine_calls[1].point_file) = 4
    /\ Len(engine_calls[1].chain) = N_ELASTIX_STAGES
    /\ status = "running"

\* ------------------------------------------------ the image run, cells 9-13
\* itk_image before cell 11 binds it
NoImage == [size |-> <<0, 0, 0>>, spacing |-> <<1, 1, 1>>,
            origin |-> Origin, direction |-> Identity]

\* the kernel before cell 9: nothing of cells 10-13 is bound, the store is
\* remote, nothing is cached and nothing is written
InitImage ==
    /\ PointIdle
    /\ pc = "img9"
    /\ store_layout \in StoreLayouts
    /\ requests = <<>>
    /\ cache = <<>>
    /\ store_reads = <<>>
    /\ voxel_shape \in Shapes
    /\ axis_spacings = ExampleSpacings
    /\ orientation \in [given : Codes, desired : {LPS}]
    /\ itk_image = NoImage
    /\ written = <<>>

\* Cell 9: the .zattrs of the channel are read with fs.open and printed
ViewAttrs ==
    /\ pc = "img9"
    /\ printed' = Append(printed, [axes |-> ZattrsAxes, paths |-> ZattrsPaths,
                               scales |-> ZattrsScales])
    /\ pc' = "img10"
    /\ UNCHANGED <<inputs, image_vars, idx, defined, errors, status, input_points,
                   init_transform, init_points, results_dir, param, toplevel_param,
                   engine_calls, result_point_set>>

\* Cell 10: S3Map, LRUStoreCache, zarr.group: the group's metadata is read
\* through the cache
OpenStore ==
    /\ pc = "img10"
    /\ LET st == GetItem(store_layout,
                         [values |-> cache, reads |-> store_reads, raised |-> FALSE],
                         GroupKey)
       IN  /\ cache' = st.values
           /\ store_reads' = st.reads
    /\ defined' = defined \cup {"store", "cache", "root"}
    /\ pc' = "img11"
    /\ UNCHANGED <<inputs, idx, errors, status, input_points, init_transform,
                   init_points, results_dir, param, toplevel_param, engine_calls,
                   result_point_set, printed, store_layout, requests, voxel_shape,
                   axis_spacings, orientation, itk_image, written>>

\* Cell 11: voxel_array = np.squeeze(np.asarray(root[4])), then
\* itk.image_view_from_array
FetchLevel ==
    /\ pc = "img11"
    /\ LET st == ReadArray(store_layout,
                           [values |-> cache, reads |-> store_reads, raised |-> FALSE],
                           4)
       IN  /\ cache' = st.values
           /\ store_reads' = st.reads
           /\ requests' = Append(requests, [level |-> 4, raised |-> st.raised])
    /\ itk_image' = ImageViewFromArray(voxel_shape)
    /\ defined' = defined \cup {"voxel_array", "itk_image"}
    /\ pc' = "img12"
    /\ UNCHANGED <<inputs, idx, errors, status, input_points, init_transform,
                   init_points, results_dir, param, toplevel_param, engine_calls,
                   result_point_set, printed, store_layout, voxel_shape,
                   axis_spacings, orientation, written>>

\* Cell 12, first statements: axis_spacings, itk_spatial_axes, SetSpacing
AssignSpacing ==
    /\ pc = "img12"
    /\ itk_image' = SetSpacing(itk_image, axis_spacings)
    /\ defined' = defined \cup {"axis_spacings", "itk_spatial_axes"}
    /\ pc' = "img12_orient"
    /\ UNCHANGED <<inputs, idx, errors, status, input_points, init_transform,
                   init_points, results_dir, param, toplevel_param, engine_calls,
                   result_point_set, printed, store_layout, requests, cache,
                   store_reads, voxel_shape, axis_spacings, orientation, written>>

\* Cell 12, remaining statements: INPUT_COORDINATE_ORIENTATION, orient_filter,
\* UpdateOutputInformation, itk_image.CopyInformation(orient_filter.GetOutput())
ApplyOrientation ==
    /\ pc = "img12_orient"
    /\ itk_image' = OrientImageFilter(itk_image, orientation.given, orientation.desired)
    /\ defined' = defined \cup {"INPUT_COORDINATE_ORIENTATION", "orient_filter"}
    /\ pc' = "img13"
    /\ UNCHANGED <<inputs, idx, errors, status, input_points, init_transform,
                   init_points, results_dir, param, toplevel_param, engine_calls,
                   result_point_set, printed, store_layout, requests, cache,
                   store_reads, voxel_shape, axis_spacings, orientation, written>>

\* Cell 13: itk.imwrite(itk_image, SMARTSPIM_OUTPUT_FILENAME, compression=True)
WriteImage ==
    /\ pc = "img13"
    /\ written' = Append(written, [image |-> itk_image, compression |-> TRUE])
    /\ pc' = "img_end"
    /\ UNCHANGED <<inputs, idx, defined, errors, status, input_points, init_transform,
                   init_points, results_dir, param, toplevel_param, engine_calls,
                   result_point_set, printed, store_layout, requests, cache,
                   store_reads, voxel_shape, axis_spacings, orientation, itk_image>>

NextImage ==
    \/ ViewAttrs
    \/ OpenStore
    \/ FetchLevel
    \/ AssignSpacing
    \/ ApplyOrientation
    \/ WriteImage

SpecImage == InitImage /\ [][NextImage]_vars

\* the names cell 12 binds when it resolves the geometry
GeometryNames == {"axis_spacings", "itk_spatial_axes", "INPUT_COORDINATE_ORIENTATION"}

\* a level is fetched only once the geometry is resolved
GeometryBeforeFetch == requests # <<>> => GeometryNames \subseteq defined

\* at most one level is fetched, without error; the file is written at most
\* once, as the last step, compressed, and holds the image with the spacing
\* set and the orientation reconciled
OneFetchOneWrite ==
    /\ Len(requests) <= 1
    /\ \A k \in 1..Len(requests) : ~requests[k].raised
    /\ Len(written) <= 1
    /\ written # <<>> <=> pc = "img_end"
    /\ pc = "img_end" => Len(requests) = 1
    /\ \A k \in 1..Len(written) :
          /\ written[k].compression
          /\ written[k].image =
                OrientImageFilter(SetSpacing(ImageViewFromArray(voxel_shape), axis_spacings),
                                  orientation.given, orientation.desired)

\* C22: an image run resolves the geometry, then fetches one pyramid level,
\* then applies the orientation reconciliation, then writes the compressed
\* file: one level is fetched, the file is written once, as the last step,
\* after the reconciled geometry has been applied to the image.
C22_StepOrder == GeometryBeforeFetch /\ OneFetchOneWrite

\* a .zattrs scale, in tenths of a micrometer, in the unit of the spacings
\* (1/Scale mm)
ScaleAsSpacing(tenths) == (tenths * Scale) \div 10000

\* the level of the one fetch
FetchedLevel == requests[1].level

\* C24: the spacing set on the image is the spacing of the level that was
\* fetched: level 4 is read, and the spacing set (x 0.0288, y 0.0288,
\* z 0.032 mm) equals the scale of level 4 in the store metadata (z 32.0,
\* y 28.8, x 28.8 micrometer), axis by axis name.
C24_SpacingOfFetchedLevel ==
    pc \in {"img12_orient", "img13", "img_end"} =>
        /\ Len(requests) = 1
        /\ FetchedLevel = 4
        /\ ~requests[1].raised
        /\ <<LevelSpacing(4, "z"), LevelSpacing(4, "y"), LevelSpacing(4, "x")>>
              = <<320, 288, 288>>
        /\ pc = "img12_orient" =>
              /\ itk_image.spacing = <<2880, 2880, 3200>>
              /\ \A k \in 1..3 :
                    itk_image.spacing[k]
                        = ScaleAsSpacing(LevelSpacing(FetchedLevel, itk_spatial_axes[k]))
        /\ (pc = "img_end" /\ orientation.given = INPUT_COORDINATE_ORIENTATION) =>
              \A k \in 1..3 :
                  written[1].image.spacing[k]
                      = ScaleAsSpacing(LevelSpacing(FetchedLevel, itk_spatial_axes[k]))

C24_Witness ==
    /\ pc = "img12_orient"
    /\ FetchedLevel = 4
    /\ itk_image.spacing = <<2880, 2880, 3200>>
    /\ itk_image.size = <<462, 640, 262>>

\* the image of cell 12 has been reconciled from RAI to LPS
ReconciledRAItoLPS ==
    /\ pc \in {"oriented", "img13"}
    /\ orientation.given = RAI
    /\ orientation.desired = LPS

\* C25: reconciling from RAI to LPS gives the direction matrix minus the
\* identity, leaves the spacing as it was set, and puts the origin of each
\* axis at (size - 1) x spacing: (13.2768, 18.4032, 8.352) for size
\* 462 x 640 x 262 and spacing (0.0288, 0.0288, 0.032).
C25_RAItoLPS ==
    ReconciledRAItoLPS =>
        /\ \A r \in 1..3 : \A j \in 1..3 :
              itk_image.direction[r][j] = (IF r = j THEN -1 ELSE 0)
        /\ itk_image.size = ImageViewFromArray(voxel_shape).size
        /\ \A k \in 1..3 :
              /\ itk_image.spacing[k] = axis_spacings[itk_spatial_axes[k]]
              /\ itk_image.origin[k] = (itk_image.size[k] - 1) * itk_image.spacing[k]
        /\ (voxel_shape = ExampleShape /\ axis_spacings = ExampleSpacings) =>
              /\ itk_image.size = <<462, 640, 262>>
              /\ itk_image.spacing = <<2880, 2880, 3200>>
              /\ itk_image.origin = <<1327680, 1840320, 835200>>

C25_Witness ==
    /\ ReconciledRAItoLPS
    /\ voxel_shape = ExampleShape
    /\ axis_spacings = ExampleSpacings
    /\ itk_image.origin = <<1327680, 1840320, 835200>>
    /\ itk_image.direction[1][1] = -1

\* the spatial axes of the store
SpatialAxes == {"x", "y", "z"}

\* the levels the store metadata lists
Levels == {ZattrsPaths[k] : k \in 1..Len(ZattrsPaths)}

\* C26: the levels of the store are indexed 0..L-1 and the voxel spacing
\* strictly increases with the level index on every spatial axis (1.8, 3.6,
\* 7.2, 14.4, 28.8 micrometer in x and y; 2, 4, 8, 16, 32 in z), so the
\* level the workflow fetches, 4 = L-1, is the coarsest one.
C26_FetchedLevelCoarsest ==
    /\ printed # <<>> =>
          /\ Len(printed[1].scales) = NUM_ARRAYS
          /\ Len(printed[1].paths) = NUM_ARRAYS
          /\ \A k \in 1..NUM_ARRAYS : printed[1].paths[k] = k - 1
          /\ \A axis_name \in SpatialAxes : \A level \in Levels :
                level + 1 \in Levels =>
                    LevelSpacing(level, axis_name) < LevelSpacing(level + 1, axis_name)
          /\ [level \in Levels |-> LevelSpacing(level, "x")]
                = [level \in Levels |-> <<18, 36, 72, 144, 288>>[level + 1]]
          /\ [level \in Levels |-> LevelSpacing(level, "y")]
                = [level \in Levels |-> <<18, 36, 72, 144, 288>>[level + 1]]
          /\ [level \in Levels |-> LevelSpacing(level, "z")]
                = [level \in Levels |-> <<20, 40, 80, 160, 320>>[level + 1]]
    /\ requests # <<>> =>
          /\ FetchedLevel = NUM_ARRAYS - 1
          /\ FetchedLevel \in Levels
          /\ \A axis_name \in SpatialAxes : \A level \in Levels \ {FetchedLevel} :
                LevelSpacing(level, axis_name) < LevelSpacing(FetchedLevel, axis_name)

C26_Witness ==
    /\ printed # <<>>
    /\ requests # <<>>
    /\ FetchedLevel = 4
    /\ ~requests[1].raised
    /\ LevelSpacing(FetchedLevel, "z") = 320
====
